---- MODULE Spec2Model ----
(***************************************************************************)
(* Model of optimade/server/mappers/entries.py: the metaclass MetaMapper   *)
(* with its lazily cached class properties, and BaseResourceMapper with    *)
(* its alias lookups and the map_back transform; and of                    *)
(* ServerConfig.load_settings of optimade/server/config.py.                *)
(*                                                                         *)
(* Strings are modelled as sequences of tokens.  A token is an atom that   *)
(* holds no "." of its own; the token "." is the separator that            *)
(* str.split(".") cuts at.  String concatenation is \o.  No token of the   *)
(* model is the concatenation of other tokens, so two token sequences are  *)
(* equal exactly when the strings they stand for are equal.                *)
(*                                                                         *)
(* A Python attribute that may be None is modelled as a slot: the empty    *)
(* set for None (or for an attribute that is not set), {v} for value v.    *)
(***************************************************************************)
EXTENDS Integers, Sequences, FiniteSets, TLC

VARIABLES config, clsdict, ret, threads

vars == <<config, clsdict, ret, threads>>

(***************************************************************************)
(* Bounds of the model.                                                    *)
(***************************************************************************)
\* largest number of keys of a backend document handed to map_back
MaxDocKeys == 2
\* largest number of "."-separated segments after the first one in a field
MaxRest == 2
\* number of callers that access a cached property concurrently
MaxThreads == 2

(***************************************************************************)
(* Strings.                                                                *)
(***************************************************************************)
None == {}

Some(v) == {v}

Val(slot) == CHOOSE v \in slot : TRUE

Str(t) == <<t>>

DOT == "."

\* str.split("."): the list of the pieces between the separators
RECURSIVE SplitFrom(_, _, _)
SplitFrom(s, i, piece) ==
    IF i > Len(s) THEN <<piece>>
    ELSE IF s[i] = DOT THEN <<piece>> \o SplitFrom(s, i + 1, <<>>)
    ELSE SplitFrom(s, i + 1, Append(piece, s[i]))

Split(s) == SplitFrom(s, 1, <<>>)

\* ".".join(parts)
RECURSIVE Join(_)
Join(parts) ==
    IF Len(parts) = 0 THEN <<>>
    ELSE IF Len(parts) = 1 THEN parts[1]
    ELSE parts[1] \o <<DOT>> \o Join(Tail(parts))

\* f"_{CONFIG.provider.prefix}_{field}"
Prefixed(prefix, field) == <<"_">> \o prefix \o <<"_">> \o field

\* dict(pairs): a later pair with the same key overwrites an earlier one
DictOf(pairs) ==
    [k \in {pairs[i][1] : i \in DOMAIN pairs} |->
        pairs[CHOOSE i \in DOMAIN pairs :
                 /\ pairs[i][1] = k
                 /\ \A j \in DOMAIN pairs : pairs[j][1] = k => j <= i][2]]

\* d.get(k, None), as a slot
DictGet(d, k) == IF k \in DOMAIN d THEN Some(d[k]) ELSE None

\* the pairs with their two members exchanged
Swapped(pairs) == [i \in DOMAIN pairs |-> <<pairs[i][2], pairs[i][1]>>]

\* d.get(k, default)
GetOr(d, k, default) == IF k \in DOMAIN d THEN d[k] ELSE default

(***************************************************************************)
(* Names used by the declarations and the inputs.                          *)
(***************************************************************************)
ID == Str("id")

TYPE == Str("type")

RELATIONSHIPS == Str("relationships")

LINKS == Str("links")

ATTRIBUTES == Str("attributes")

\* BaseResourceMapper.TOP_LEVEL_NON_ATTRIBUTES_FIELDS
TOP_LEVEL_NON_ATTRIBUTES_FIELDS == {ID, TYPE, RELATIONSHIPS, LINKS}

\* the value Python's None has as the value of a document field
NullValue == "null"

(***************************************************************************)
(* The classes.  BaseResourceMapper and its subclasses are instances of    *)
(* the metaclass MetaMapper.                                               *)
(***************************************************************************)
MetaClass == "MetaMapper"

Mappers == {"BaseResourceMapper", "StructureMapper", "ReferenceMapper"}

\* a structures mapper that declares one alias and nothing else
ExampleMapper == "ExampleStructureMapper"

\* the mappers the example runs with
ExampleMappers == {"BaseResourceMapper", ExampleMapper}

AllMappers == Mappers \cup ExampleMappers

Classes == AllMappers \cup {MetaClass}

\* the classes whose __dict__ an attribute read on cls searches, in order:
\* the method resolution order of cls, then the metaclass
SearchOrder(cls) ==
    IF cls = MetaClass THEN <<MetaClass>>
    ELSE IF cls = "BaseResourceMapper" THEN <<cls, MetaClass>>
    ELSE <<cls, "BaseResourceMapper", MetaClass>>

\* the value of the property object that MetaMapper.ENDPOINT evaluates to
\* when it is read on the metaclass itself
PropertyObject == "<property ENDPOINT>"

\* cls.ALIASES
ALIASES(cls) ==
    CASE cls = "StructureMapper" ->
            << <<Str("elements"), Str("custom_elements_field")>>,
               <<Str("species"), Str("kinds")>>,
               <<Prefixed(Str("exmpl"), Str("band_gap")), Str("gap")>> >>
      [] cls = "ReferenceMapper" ->
            << <<Str("doi"), ATTRIBUTES>>,
               <<ATTRIBUTES, Str("meta")>> >>
      [] cls = ExampleMapper ->
            << <<Str("elements"), Str("custom_elements_field")>> >>
      [] OTHER -> <<>>

\* cls.LENGTH_ALIASES
LENGTH_ALIASES(cls) ==
    CASE cls = "StructureMapper" -> << <<Str("elements"), Str("nelem")>> >>
      [] cls = "ReferenceMapper" -> << <<Str("authors"), Str("nauthors")>> >>
      [] OTHER -> <<>>

\* cls.PROVIDER_FIELDS
PROVIDER_FIELDS(cls) ==
    CASE cls = "StructureMapper" -> <<Str("band_gap")>>
      [] OTHER -> <<>>

\* cls.ENTRY_RESOURCE_CLASS.schema(): the const of its "type" property (a
\* slot) and the properties the schema declares queryable
Schema(cls) ==
    CASE cls = "StructureMapper" ->
            [type_const |-> Some("structures"),
             queryable |-> {Str("elements"), Str("species")}]
      [] cls = "ReferenceMapper" ->
            [type_const |-> Some("references"),
             queryable |-> {Str("doi")}]
      [] cls = ExampleMapper ->
            [type_const |-> Some("structures"),
             queryable |-> {Str("elements"), Str("species")}]
      [] OTHER -> [type_const |-> None, queryable |-> {}]

(***************************************************************************)
(* CONFIG: the provider prefix, provider_fields and aliases by endpoint.   *)
(* A dict of aliases is the sequence of its items in insertion order.      *)
(***************************************************************************)
DefaultConfig ==
    [prefix |-> Str("exmpl"),
     provider_fields |-> <<>>,
     aliases |-> <<>>,
     length_aliases |-> <<>>]

ExampleConfig ==
    [prefix |-> Str("exmpl"),
     provider_fields |-> [e \in {"structures"} |-> <<Str("hull_distance")>>],
     aliases |-> [e \in {"structures"} |->
                    << <<Str("elements"), Str("cfg_elements")>>,
                      <<Str("atoms"), Str("kinds")>> >>],
     length_aliases |-> [e \in {"structures"} |->
                           << <<Str("elements"), Str("nelements")>> >>]]

Configs == {DefaultConfig, ExampleConfig}

(***************************************************************************)
(* The cached class attributes.                                            *)
(***************************************************************************)
CacheAttrs == {"_supported_prefixes", "_endpoint", "_all_attributes",
               "_entry_resource_attributes", "_all_aliases"}

\* every class __dict__ without a cached attribute: the metaclass holds None
EmptyDicts == [c \in Classes |-> [a \in CacheAttrs |-> None]]

\* getattr(cls, attr): the first __dict__ of the search order that holds it
RECURSIVE FirstSet(_, _, _)
FirstSet(d, order, attr) ==
    IF Len(order) = 0 THEN None
    ELSE IF d[Head(order)][attr] # None THEN d[Head(order)][attr]
    ELSE FirstSet(d, Tail(order), attr)

GetAttr(d, cls, attr) == FirstSet(d, SearchOrder(cls), attr)

\* setattr(cls, attr, value)
SetAttr(d, cls, attr, value) == [d EXCEPT ![cls][attr] = Some(value)]

\* MetaMapper.ENDPOINT as a property: value v and class dicts d afterwards
ENDPOINT(d, cls) ==
    IF GetAttr(d, cls, "_endpoint") = None
    THEN LET const == Schema(cls).type_const
             e == IF const = None THEN "" ELSE Val(const)
         IN [v |-> e, d |-> SetAttr(d, cls, "_endpoint", e)]
    ELSE [v |-> Val(GetAttr(d, cls, "_endpoint")), d |-> d]

\* optimade.server.schemas.retrieve_queryable_properties(schema)
retrieve_queryable_properties(schema) == schema.queryable

\* MetaMapper.ENTRY_RESOURCE_ATTRIBUTES
ENTRY_RESOURCE_ATTRIBUTES(d, cls) ==
    IF GetAttr(d, cls, "_entry_resource_attributes") = None
    THEN LET a == retrieve_queryable_properties(Schema(cls))
         IN [v |-> a, d |-> SetAttr(d, cls, "_entry_resource_attributes", a)]
    ELSE [v |-> Val(GetAttr(d, cls, "_entry_resource_attributes")), d |-> d]

\* MetaMapper.SUPPORTED_PREFIXES
SUPPORTED_PREFIXES(cfg, d, cls) ==
    IF GetAttr(d, cls, "_supported_prefixes") = None
    THEN [v |-> {cfg.prefix},
          d |-> SetAttr(d, cls, "_supported_prefixes", {cfg.prefix})]
    ELSE [v |-> Val(GetAttr(d, cls, "_supported_prefixes")), d |-> d]

\* cls.ENDPOINT for any class: read on the metaclass itself, the property is
\* not invoked and the property object is the value
EndpointAttr(d, cls) ==
    IF cls = MetaClass THEN [v |-> PropertyObject, d |-> d] ELSE ENDPOINT(d, cls)

\* all_aliases bound to the mapper it is called on
AllAliasesClsOfMapper(mapper) == mapper

\* the class that all_aliases receives as cls when it is called on mapper:
\* a classmethod defined on the metaclass is bound to type(mapper)
AllAliasesCls(mapper) == MetaClass

\* lines 89-100: the concatenation of the four sources, for class cls
ConcatAliases(cfg, endpoint, cls) ==
    LET conf == GetOr(cfg.provider_fields, endpoint, <<>>)
        own == PROVIDER_FIELDS(cls)
    IN [i \in DOMAIN conf |-> <<Prefixed(cfg.prefix, conf[i]), conf[i]>>]
       \o [i \in DOMAIN own |-> <<Prefixed(cfg.prefix, own[i]), own[i]>>]
       \o GetOr(cfg.aliases, endpoint, <<>>)
       \o ALIASES(cls)

\* MetaMapper.all_aliases, called as mapper.all_aliases()
all_aliases(cfg, d, mapper) ==
    LET cls == AllAliasesCls(mapper)
    IN IF GetAttr(d, cls, "_all_aliases") = None
       THEN LET e == EndpointAttr(d, cls)
                a == ConcatAliases(cfg, e.v, cls)
            IN [v |-> a, d |-> SetAttr(e.d, cls, "_all_aliases", a)]
       ELSE [v |-> Val(GetAttr(d, cls, "_all_aliases")), d |-> d]

\* get_backend_field returning the looked-up segment alone when no alias is found
BackendFieldInFirstSegment(aliases, optimade_field) ==
    LET split == Split(optimade_field)
        alias == DictGet(DictOf(aliases), split[1])
    IN IF alias # None
       THEN Val(alias) \o (IF Len(split) > 1
                           THEN <<DOT>> \o Join(Tail(split))
                           ELSE <<>>)
       ELSE split[1]

\* lines 196-200 on a given alias table
BackendFieldIn(aliases, optimade_field) ==
    LET split == Split(optimade_field)
        alias == DictGet(DictOf(aliases), split[1])
    IN IF alias # None
       THEN Val(alias) \o (IF Len(split) > 1
                           THEN <<DOT>> \o Join(Tail(split))
                           ELSE <<>>)
       ELSE optimade_field

\* BaseResourceMapper.get_backend_field
get_backend_field(cfg, d, cls, optimade_field) ==
    LET a == all_aliases(cfg, d, cls)
    IN [v |-> BackendFieldIn(a.v, optimade_field), d |-> a.d]

\* lines 246-248 on a given alias table
OptimadeFieldIn(aliases, backend_field) ==
    GetOr(DictOf(Swapped(aliases)), backend_field, backend_field)

\* BaseResourceMapper.get_optimade_field
get_optimade_field(cfg, d, cls, backend_field) ==
    LET a == all_aliases(cfg, d, cls)
    IN [v |-> OptimadeFieldIn(a.v, backend_field), d |-> a.d]

\* BaseResourceMapper.alias_for: warns, then get_backend_field
alias_for(cfg, d, cls, field) ==
    LET r == get_backend_field(cfg, d, cls, field)
    IN [v |-> r.v, d |-> r.d, warning |-> "DeprecationWarning"]

\* BaseResourceMapper.alias_of: warns, then get_optimade_field
alias_of(cfg, d, cls, field) ==
    LET r == get_optimade_field(cfg, d, cls, field)
    IN [v |-> r.v, d |-> r.d, warning |-> "DeprecationWarning"]

\* BaseResourceMapper.get_required_fields
get_required_fields(cls) == TOP_LEVEL_NON_ATTRIBUTES_FIELDS

\* BaseResourceMapper.all_length_aliases: cls is the mapper it is called on,
\* and reading cls.ENDPOINT caches the endpoint
all_length_aliases(cfg, d, cls) ==
    LET e == ENDPOINT(d, cls)
    IN [v |-> LENGTH_ALIASES(cls) \o GetOr(cfg.length_aliases, e.v, <<>>),
        d |-> e.d]

\* BaseResourceMapper.length_alias_for: the alias as a slot, None when the
\* field has no length alias
length_alias_for(cfg, d, cls, field) ==
    LET a == all_length_aliases(cfg, d, cls)
    IN [v |-> DictGet(DictOf(a.v), field), d |-> a.d]

\* MetaMapper.ALL_ATTRIBUTES
ALL_ATTRIBUTES(cfg, d, cls) ==
    IF GetAttr(d, cls, "_all_attributes") = None
    THEN LET era == ENTRY_RESOURCE_ATTRIBUTES(d, cls)
             e == ENDPOINT(era.d, cls)
             conf == GetOr(cfg.provider_fields, e.v, <<>>)
             own == PROVIDER_FIELDS(cls)
             al == IF Len(conf) + Len(own) > 0
                   THEN all_aliases(cfg, e.d, cls)
                   ELSE [v |-> <<>>, d |-> e.d]
             a == era.v
                  \cup {OptimadeFieldIn(al.v, conf[i]) : i \in DOMAIN conf}
                  \cup {OptimadeFieldIn(al.v, own[i]) : i \in DOMAIN own}
         IN [v |-> a, d |-> SetAttr(al.d, cls, "_all_attributes", a)]
    ELSE [v |-> Val(GetAttr(d, cls, "_all_attributes")), d |-> d]

(***************************************************************************)
(* map_back.                                                               *)
(***************************************************************************)
\* lines 299-307: the document with its backend keys renamed.  The keys
\* that are no backend name of the table are copied first; then the pairs
\* are written in table order, a later pair overwriting an earlier entry of
\* the same name
RenamedDoc(aliases, doc) ==
    LET reals == {aliases[i][2] : i \in DOMAIN aliases}
        hits(k) == {i \in DOMAIN aliases :
                       aliases[i][1] = k /\ aliases[i][2] \in DOMAIN doc}
        last(k) == CHOOSE i \in hits(k) : \A j \in hits(k) : j <= i
        keys == {k \in DOMAIN doc : k \notin reals}
                \cup {aliases[i][1] : i \in {j \in DOMAIN aliases :
                                                aliases[j][2] \in DOMAIN doc}}
    IN [k \in keys |-> IF hits(k) # {} THEN doc[aliases[last(k)][2]] ELSE doc[k]]

\* lines 309-310: the test that raises Exception("Will overwrite doc field!")
WillOverwrite(newdoc) == ATTRIBUTES \in DOMAIN newdoc

\* attributes.pop(field, None)
Pop(newdoc, field) == GetOr(newdoc, field, NullValue)

\* the envelope without lines 313-316: nothing is popped from attributes
EnvelopeNoPop(newdoc, endpoint) ==
    LET kept == DOMAIN newdoc \cap TOP_LEVEL_NON_ATTRIBUTES_FIELDS
    IN [k \in kept \cup {TYPE, ATTRIBUTES} |->
          IF k = ATTRIBUTES THEN newdoc
          ELSE IF k = TYPE THEN endpoint
          ELSE newdoc[k]]

\* the envelope built from an empty top level: only the fields restored at
\* line 316 are there, a field holding None is not
EnvelopeDropNone(newdoc, endpoint) ==
    LET attributes == [k \in DOMAIN newdoc \ TOP_LEVEL_NON_ATTRIBUTES_FIELDS
                          |-> newdoc[k]]
        restored == {f \in TOP_LEVEL_NON_ATTRIBUTES_FIELDS :
                        GetOr(newdoc, f, NullValue) # NullValue}
    IN [k \in restored \cup {TYPE, ATTRIBUTES} |->
          IF k = ATTRIBUTES THEN attributes
          ELSE IF k = TYPE THEN endpoint
          ELSE newdoc[k]]

\* lines 311-322: the envelope made of the renamed document
Envelope(newdoc, endpoint) ==
    LET attributes == [k \in DOMAIN newdoc \ TOP_LEVEL_NON_ATTRIBUTES_FIELDS
                          |-> newdoc[k]]
        restored == {f \in TOP_LEVEL_NON_ATTRIBUTES_FIELDS :
                        Pop(newdoc, f) # NullValue}
        kept == (DOMAIN newdoc \cup restored)
                \cap TOP_LEVEL_NON_ATTRIBUTES_FIELDS
    IN [k \in kept \cup {TYPE, ATTRIBUTES} |->
          IF k = ATTRIBUTES THEN attributes
          ELSE IF k = TYPE THEN endpoint
          ELSE IF k \in restored THEN Pop(newdoc, k)
          ELSE newdoc[k]]

\* BaseResourceMapper.map_back: whether it raised, the envelope v it
\* returned otherwise, and the class dicts d afterwards
map_back(cfg, d, cls, doc) ==
    LET a == all_aliases(cfg, d, cls)
        newdoc == RenamedDoc(a.v, doc)
    IN IF WillOverwrite(newdoc)
       THEN [raised |-> TRUE, v |-> <<>>, d |-> a.d]
       ELSE LET e == ENDPOINT(a.d, cls)
            IN [raised |-> FALSE, v |-> Envelope(newdoc, e.v), d |-> e.d]

(***************************************************************************)
(* Inputs.                                                                 *)
(***************************************************************************)
DocKeys == {ID, TYPE, RELATIONSHIPS, LINKS, ATTRIBUTES, Str("elements"),
            Str("custom_elements_field"), Str("meta")}

DocValues == {NullValue, "x1", "AB"}

Docs == UNION {[K -> DocValues] :
                 K \in {S \in SUBSET DocKeys : Cardinality(S) <= MaxDocKeys}}

\* the documents of a store whose records carry the key "_id"
ExampleKeys == {<<"_">> \o ID, Str("custom_elements_field"),
                Str("formula_anon"), ID}

ExampleValues == {"x1", "NaCl", "AB"}

ExampleDocs == UNION {[K -> ExampleValues] : K \in SUBSET ExampleKeys}

Heads == {<<>>, Str("elements"), Str("species"), Str("custom_elements_field"),
          Str("cfg_elements"), Str("hull_distance"), Str("band_gap"),
          Str("kinds"), Str("atoms"),
          Prefixed(Str("exmpl"), Str("hull_distance")),
          Prefixed(Str("exmpl"), Str("band_gap"))}

\* the fields whose length alias is asked for
LengthFields == {<<>>, Str("elements"), Str("authors"), Str("species"),
                 Str("nelements")}

Segments == {<<>>, Str("mass"), Str("elements")}

RECURSIVE Rests(_)
Rests(n) ==
    IF n = 0 THEN {<<>>}
    ELSE Rests(n - 1)
         \cup {<<DOT>> \o seg \o r : seg \in Segments, r \in Rests(n - 1)}

Fields == {h \o r : h \in Heads, r \in Rests(MaxRest)}

(***************************************************************************)
(* The state machine.  config is fixed at start-up, clsdict holds the      *)
(* cached attributes of every class, and ret is the result of the call     *)
(* the caller has made and not yet taken.  The caller is sequential: it    *)
(* takes the result of a call before it makes the next one.  A call is one *)
(* step: the whole property or method, with every call it makes.  threads  *)
(* holds the callers that run an access of a cached property step by step, *)
(* each with its stack of frames; they are idle while the sequential       *)
(* caller runs.                                                            *)
(***************************************************************************)
Threads == 1..MaxThreads

\* a caller that has not called: no frame on its stack, no result
IdleThread ==
    [cls |-> "", prop |-> "", stack |-> <<>>, result |-> None, stored |-> FALSE]

Returned(op, cls, arg, raised, v) ==
    [op |-> op, cls |-> cls, arg |-> arg, raised |-> raised, v |-> v]

NoCall == Returned("none", "", <<>>, FALSE, <<>>)

Init ==
    /\ config \in Configs
    /\ clsdict = EmptyDicts
    /\ ret = NoCall
    /\ threads = [t \in Threads |-> IdleThread]

AccessSUPPORTED_PREFIXES(cls) ==
    LET r == SUPPORTED_PREFIXES(config, clsdict, cls)
    IN /\ ret.op = "none"
       /\ clsdict' = r.d
       /\ ret' = Returned("SUPPORTED_PREFIXES", cls, <<>>, FALSE, r.v)
       /\ UNCHANGED <<config, threads>>

AccessALL_ATTRIBUTES(cls) ==
    LET r == ALL_ATTRIBUTES(config, clsdict, cls)
    IN /\ ret.op = "none"
       /\ clsdict' = r.d
       /\ ret' = Returned("ALL_ATTRIBUTES", cls, <<>>, FALSE, r.v)
       /\ UNCHANGED <<config, threads>>

AccessENTRY_RESOURCE_ATTRIBUTES(cls) ==
    LET r == ENTRY_RESOURCE_ATTRIBUTES(clsdict, cls)
    IN /\ ret.op = "none"
       /\ clsdict' = r.d
       /\ ret' = Returned("ENTRY_RESOURCE_ATTRIBUTES", cls, <<>>, FALSE, r.v)
       /\ UNCHANGED <<config, threads>>

AccessENDPOINT(cls) ==
    LET r == ENDPOINT(clsdict, cls)
    IN /\ ret.op = "none"
       /\ clsdict' = r.d
       /\ ret' = Returned("ENDPOINT", cls, <<>>, FALSE, r.v)
       /\ UNCHANGED <<config, threads>>

CallAllAliases(cls) ==
    LET r == all_aliases(config, clsdict, cls)
    IN /\ ret.op = "none"
       /\ clsdict' = r.d
       /\ ret' = Returned("all_aliases", cls, <<>>, FALSE, r.v)
       /\ UNCHANGED <<config, threads>>

CallGetBackendField(cls, field) ==
    LET r == get_backend_field(config, clsdict, cls, field)
    IN /\ ret.op = "none"
       /\ clsdict' = r.d
       /\ ret' = Returned("get_backend_field", cls, field, FALSE, r.v)
       /\ UNCHANGED <<config, threads>>

CallGetOptimadeField(cls, field) ==
    LET r == get_optimade_field(config, clsdict, cls, field)
    IN /\ ret.op = "none"
       /\ clsdict' = r.d
       /\ ret' = Returned("get_optimade_field", cls, field, FALSE, r.v)
       /\ UNCHANGED <<config, threads>>

CallAliasFor(cls, field) ==
    LET r == alias_for(config, clsdict, cls, field)
    IN /\ ret.op = "none"
       /\ clsdict' = r.d
       /\ ret' = Returned("alias_for", cls, field, FALSE,
                          [value |-> r.v, warning |-> r.warning])
       /\ UNCHANGED <<config, threads>>

CallAliasOf(cls, field) ==
    LET r == alias_of(config, clsdict, cls, field)
    IN /\ ret.op = "none"
       /\ clsdict' = r.d
       /\ ret' = Returned("alias_of", cls, field, FALSE,
                          [value |-> r.v, warning |-> r.warning])
       /\ UNCHANGED <<config, threads>>

CallGetRequiredFields(cls) ==
    /\ ret.op = "none"
    /\ ret' = Returned("get_required_fields", cls, <<>>, FALSE,
                       get_required_fields(cls))
    /\ UNCHANGED <<config, clsdict, threads>>

CallAllLengthAliases(cls) ==
    LET r == all_length_aliases(config, clsdict, cls)
    IN /\ ret.op = "none"
       /\ clsdict' = r.d
       /\ ret' = Returned("all_length_aliases", cls, <<>>, FALSE, r.v)
       /\ UNCHANGED <<config, threads>>

CallLengthAliasFor(cls, field) ==
    LET r == length_alias_for(config, clsdict, cls, field)
    IN /\ ret.op = "none"
       /\ clsdict' = r.d
       /\ ret' = Returned("length_alias_for", cls, field, FALSE, r.v)
       /\ UNCHANGED <<config, threads>>

CallMapBack(cls, doc) ==
    LET r == map_back(config, clsdict, cls, doc)
    IN /\ ret.op = "none"
       /\ clsdict' = r.d
       /\ ret' = Returned("map_back", cls, doc, r.raised, r.v)
       /\ UNCHANGED <<config, threads>>

\* the caller takes the result (or the exception) of its call
TakeResult ==
    /\ ret.op # "none"
    /\ ret' = NoCall
    /\ UNCHANGED <<config, clsdict, threads>>

\* the callers of the cached properties, of all_aliases and of the length
\* aliases, which read ENDPOINT
NextCache ==
    \/ \E cls \in Mappers : AccessSUPPORTED_PREFIXES(cls)
    \/ \E cls \in Mappers : AccessALL_ATTRIBUTES(cls)
    \/ \E cls \in Mappers : AccessENTRY_RESOURCE_ATTRIBUTES(cls)
    \/ \E cls \in Mappers : AccessENDPOINT(cls)
    \/ \E cls \in Mappers : CallAllAliases(cls)
    \/ \E cls \in Mappers : CallAllLengthAliases(cls)
    \/ \E cls \in Mappers, field \in LengthFields : CallLengthAliasFor(cls, field)
    \/ TakeResult

SpecCache == Init /\ [][NextCache]_vars

\* the callers of the two lookups, with the cached state they read
NextLookup ==
    \/ \E cls \in Mappers : CallAllAliases(cls)
    \/ \E cls \in Mappers, field \in Fields : CallGetBackendField(cls, field)
    \/ \E cls \in Mappers, field \in Fields : CallGetOptimadeField(cls, field)
    \/ \E cls \in Mappers, field \in Fields : CallAliasFor(cls, field)
    \/ \E cls \in Mappers, field \in Fields : CallAliasOf(cls, field)
    \/ TakeResult

SpecLookup == Init /\ [][NextLookup]_vars

\* the callers of map_back, with the cached state it reads
NextMapBack ==
    \/ \E cls \in Mappers : AccessENDPOINT(cls)
    \/ \E cls \in Mappers : CallAllAliases(cls)
    \/ \E cls \in Mappers : CallAllLengthAliases(cls)
    \/ \E cls \in Mappers, field \in LengthFields : CallLengthAliasFor(cls, field)
    \/ \E cls \in Mappers : CallGetRequiredFields(cls)
    \/ \E cls \in Mappers, doc \in Docs : CallMapBack(cls, doc)
    \/ TakeResult

SpecMapBack == Init /\ [][NextMapBack]_vars

\* every caller of the mapper with one alias and of its parent
NextExample ==
    \/ \E cls \in ExampleMappers : AccessSUPPORTED_PREFIXES(cls)
    \/ \E cls \in ExampleMappers : AccessALL_ATTRIBUTES(cls)
    \/ \E cls \in ExampleMappers : AccessENTRY_RESOURCE_ATTRIBUTES(cls)
    \/ \E cls \in ExampleMappers : AccessENDPOINT(cls)
    \/ \E cls \in ExampleMappers : CallAllAliases(cls)
    \/ \E cls \in ExampleMappers : CallAllLengthAliases(cls)
    \/ \E cls \in ExampleMappers, field \in LengthFields :
           CallLengthAliasFor(cls, field)
    \/ \E cls \in ExampleMappers, field \in Heads : CallGetBackendField(cls, field)
    \/ \E cls \in ExampleMappers, field \in Heads : CallGetOptimadeField(cls, field)
    \/ \E cls \in ExampleMappers, field \in Heads : CallAliasFor(cls, field)
    \/ \E cls \in ExampleMappers, field \in Heads : CallAliasOf(cls, field)
    \/ \E cls \in ExampleMappers : CallGetRequiredFields(cls)
    \/ \E cls \in ExampleMappers, doc \in ExampleDocs : CallMapBack(cls, doc)
    \/ TakeResult

SpecExample == Init /\ [][NextExample]_vars

(***************************************************************************)
(* ServerConfig.load_settings.  A Python value carries its type: a str and *)
(* a pathlib.Path of the same text are different values.  The file system  *)
(* gives every path a file: missing, not valid JSON, or a JSON object.     *)
(***************************************************************************)
PyStr(s) == [type |-> "str", s |-> s]

\* pathlib.Path(x), of a str or of a Path
PyPath(x) == [type |-> "Path", s |-> x.s]

\* the Python expression a != b
PyNotEqual(a, b) == a.type # b.type \/ a.s # b.s

\* config.DEFAULT_CONFIG_FILE_PATH: str(Path.home().joinpath(".optimade.json"))
DEFAULT_CONFIG_FILE_PATH == PyStr("~/.optimade.json")

OtherConfigFilePath == PyStr("/etc/optimade.json")

MissingFile == [kind |-> "missing", data |-> <<>>]

InvalidFile == [kind |-> "invalid", data |-> <<>>]

JsonFile(data) == [kind |-> "json", data |-> data]

\* Path.is_file()
IsFile(files, path) == files[path.s].kind # "missing"

\* new_values.update(values): the entries of values replace those of new_values
Update(new_values, values) ==
    [k \in DOMAIN new_values \cup DOMAIN values |->
        IF k \in DOMAIN values THEN values[k] ELSE new_values[k]]

\* ServerConfig.load_settings(values) on the file system files: the
\* exception it raised (a slot), whether it warned, and what it returned
load_settings(values, files) ==
    LET config_file_path ==
            PyPath(GetOr(values, "config_file", DEFAULT_CONFIG_FILE_PATH))
        file == files[config_file_path.s]
    IN IF IsFile(files, config_file_path)
       THEN IF file.kind = "invalid"
            THEN [raised |-> Some("RuntimeError"), warned |-> FALSE, v |-> <<>>]
            ELSE [raised |-> None, warned |-> FALSE,
                  v |-> Update(file.data, values)]
       ELSE IF PyNotEqual(DEFAULT_CONFIG_FILE_PATH, config_file_path)
            THEN [raised |-> Some("RuntimeError"), warned |-> FALSE, v |-> <<>>]
            ELSE [raised |-> None, warned |-> TRUE, v |-> Update(<<>>, values)]

\* the keyword arguments and environment values given to ServerConfig
SettingsValues ==
    {Update(cf, dbg) :
        cf \in {<<>>} \cup {[k \in {"config_file"} |-> p] :
                               p \in {DEFAULT_CONFIG_FILE_PATH,
                                      PyPath(DEFAULT_CONFIG_FILE_PATH),
                                      OtherConfigFilePath}},
        dbg \in {<<>>} \cup {[k \in {"debug"} |-> PyStr(b)] :
                                b \in {"true", "false"}}}

\* the JSON objects a config file holds
SettingsJson ==
    {Update(dbg, url) :
        dbg \in {<<>>} \cup {[k \in {"debug"} |-> PyStr(b)] :
                                b \in {"true", "false"}},
        url \in {<<>>, [k \in {"base_url"} |-> PyStr("http://localhost")]}}

SettingsFiles == {MissingFile, InvalidFile} \cup {JsonFile(j) : j \in SettingsJson}

FileSystems ==
    [{DEFAULT_CONFIG_FILE_PATH.s, OtherConfigFilePath.s} -> SettingsFiles]

CallLoadSettings(values, files) ==
    LET r == load_settings(values, files)
    IN /\ ret.op = "none"
       /\ ret' = Returned("load_settings", "ServerConfig",
                          [values |-> values, files |-> files],
                          r.raised # None,
                          [warned |-> r.warned, values |-> r.v])
       /\ UNCHANGED <<config, clsdict, threads>>

\* the callers of load_settings
NextSettings ==
    \/ \E values \in SettingsValues, files \in FileSystems :
           CallLoadSettings(values, files)
    \/ TakeResult

SpecSettings == Init /\ [][NextSettings]_vars

(***************************************************************************)
(* Concurrent accesses of one cached property.  The code takes no lock:    *)
(* an access is a read of the cached attribute (the test for None), the    *)
(* accesses and calls that compute the value, an assignment of the         *)
(* attribute, and a second read of the attribute for the return.  Each     *)
(* read and each assignment of a class attribute is one step of a caller,  *)
(* and the steps of the callers interleave in any order.                   *)
(***************************************************************************)
Props == {"SUPPORTED_PREFIXES", "ALL_ATTRIBUTES", "ENTRY_RESOURCE_ATTRIBUTES",
          "ENDPOINT", "all_aliases"}

\* the cached attribute behind a property or behind all_aliases
Attr(f) ==
    CASE f = "SUPPORTED_PREFIXES" -> "_supported_prefixes"
      [] f = "ALL_ATTRIBUTES" -> "_all_attributes"
      [] f = "ENTRY_RESOURCE_ATTRIBUTES" -> "_entry_resource_attributes"
      [] f = "ENDPOINT" -> "_endpoint"
      [] f = "all_aliases" -> "_all_aliases"

\* the class whose attribute an access of f on mapper tests and assigns
CacheCls(mapper, f) ==
    IF f = "all_aliases" THEN AllAliasesCls(mapper) ELSE mapper

\* ALL_ATTRIBUTES assigning the attribute before it computes the value
ProgramStoreFirst(f) ==
    CASE f = "ALL_ATTRIBUTES" ->
            <<"check", "store", "era", "endpoint", "fields", "store", "return">>
      [] f = "all_aliases" -> <<"check", "endpoint", "store", "return">>
      [] OTHER -> <<"check", "store", "return">>

\* the steps of an access in the order the code takes them: "check" is the
\* test for None, "era", "endpoint" and "fields" are the places where the
\* computation accesses ENTRY_RESOURCE_ATTRIBUTES, ENDPOINT and, through
\* get_optimade_field, all_aliases, "store" is the assignment and "return"
\* the read that gives the result
Program(f) ==
    CASE f = "ALL_ATTRIBUTES" ->
            <<"check", "era", "endpoint", "fields", "store", "return">>
      [] f = "all_aliases" -> <<"check", "endpoint", "store", "return">>
      [] OTHER -> <<"check", "store", "return">>

\* a frame at its first step: ep is the endpoint it has read (a slot), i
\* the index of the next provider field, out the set it has built so far
Frame(f, cls) ==
    [f |-> f, cls |-> cls, pc |-> 1, ep |-> None, i |-> 1, out |-> {}]

\* lines 44-49: the configured provider fields of the endpoint a frame has
\* read, then the declared ones
ProviderFieldsIn(cfg, fr) ==
    GetOr(cfg.provider_fields, Val(fr.ep), <<>>) \o PROVIDER_FIELDS(fr.cls)

\* the value a frame assigns to its attribute
Computed(cfg, fr) ==
    CASE fr.f = "SUPPORTED_PREFIXES" -> SUPPORTED_PREFIXES(cfg, EmptyDicts, fr.cls).v
      [] fr.f = "ENTRY_RESOURCE_ATTRIBUTES" ->
            ENTRY_RESOURCE_ATTRIBUTES(EmptyDicts, fr.cls).v
      [] fr.f = "ENDPOINT" -> ENDPOINT(EmptyDicts, fr.cls).v
      [] fr.f = "all_aliases" -> ConcatAliases(cfg, Val(fr.ep), fr.cls)
      [] fr.f = "ALL_ATTRIBUTES" -> fr.out

\* what the frame that made an access does with the value v it gets back
Received(cfg, fr, v) ==
    LET at == Program(fr.f)[fr.pc]
    IN CASE at = "era" -> [fr EXCEPT !.out = @ \cup v, !.pc = @ + 1]
         [] at = "endpoint" -> [fr EXCEPT !.ep = Some(v), !.pc = @ + 1]
         [] at = "fields" ->
               [fr EXCEPT !.out = @ \cup {OptimadeFieldIn(
                                             v, ProviderFieldsIn(cfg, fr)[fr.i])},
                          !.i = @ + 1]

Top(t) == threads[t].stack[Len(threads[t].stack)]

AtStep(t, steps) ==
    /\ threads[t].stack # <<>>
    /\ Program(Top(t).f)[Top(t).pc] \in steps

\* the stack with its top frame replaced
WithTop(stack, fr) == [stack EXCEPT ![Len(stack)] = fr]

\* a caller starts an access of property prop of mapper cls; the callers of
\* one run access the same property of the same mapper
ThreadCall(t, cls, prop) ==
    /\ ret.op = "none"
    /\ threads[t] = IdleThread
    /\ \A u \in Threads :
           threads[u].prop # "" =>
               threads[u].cls = cls /\ threads[u].prop = prop
    /\ threads' = [threads EXCEPT
                     ![t] = [cls |-> cls, prop |-> prop,
                             stack |-> <<Frame(prop, CacheCls(cls, prop))>>,
                             result |-> None, stored |-> FALSE]]
    /\ UNCHANGED <<config, clsdict, ret>>

\* `if cls._x is None`: one read of the attribute
ThreadCheck(t) ==
    /\ AtStep(t, {"check"})
    /\ LET fr == Top(t)
           pc == IF GetAttr(clsdict, fr.cls, Attr(fr.f)) = None
                 THEN fr.pc + 1
                 ELSE Len(Program(fr.f))
       IN threads' = [threads EXCEPT
                        ![t].stack = WithTop(@, [fr EXCEPT !.pc = pc])]
    /\ UNCHANGED <<config, clsdict, ret>>

\* the computation reaches an access of another cached value and enters it;
\* cls.ENDPOINT read on the metaclass is the property object, and the loop
\* over the provider fields ends after the last one
ThreadEnter(t) ==
    /\ AtStep(t, {"era", "endpoint", "fields"})
    /\ LET fr == Top(t)
           at == Program(fr.f)[fr.pc]
           stack == threads[t].stack
       IN threads' = [threads EXCEPT ![t].stack =
             CASE at = "era" ->
                     Append(stack, Frame("ENTRY_RESOURCE_ATTRIBUTES", fr.cls))
               [] at = "endpoint" ->
                     IF fr.cls = MetaClass
                     THEN WithTop(stack, Received(config, fr, PropertyObject))
                     ELSE Append(stack, Frame("ENDPOINT", fr.cls))
               [] at = "fields" ->
                     IF fr.i <= Len(ProviderFieldsIn(config, fr))
                     THEN Append(stack, Frame("all_aliases",
                                              CacheCls(fr.cls, "all_aliases")))
                     ELSE WithTop(stack, [fr EXCEPT !.pc = @ + 1])]
    /\ UNCHANGED <<config, clsdict, ret>>

\* `cls._x = ...`: one assignment of the attribute
ThreadStore(t) ==
    /\ AtStep(t, {"store"})
    /\ LET fr == Top(t)
       IN /\ clsdict' = SetAttr(clsdict, fr.cls, Attr(fr.f), Computed(config, fr))
          /\ threads' = [threads EXCEPT
                           ![t].stack = WithTop(@, [fr EXCEPT !.pc = @ + 1]),
                           ![t].stored = TRUE]
    /\ UNCHANGED <<config, ret>>

\* `return cls._x`: one read of the attribute; the value goes to the frame
\* that made the access, or to the caller when there is none
ThreadReturn(t) ==
    /\ AtStep(t, {"return"})
    /\ LET fr == Top(t)
           v == Val(GetAttr(clsdict, fr.cls, Attr(fr.f)))
           stack == threads[t].stack
           rest == SubSeq(stack, 1, Len(stack) - 1)
       IN threads' = [threads EXCEPT
             ![t].stack = IF rest = <<>> THEN <<>>
                          ELSE WithTop(rest, Received(config, rest[Len(rest)], v)),
             ![t].result = IF rest = <<>> THEN Some(v) ELSE @]
    /\ UNCHANGED <<config, clsdict, ret>>

\* the concurrent callers of one cached property
NextConcurrent ==
    \/ \E t \in Threads, cls \in Mappers, prop \in Props : ThreadCall(t, cls, prop)
    \/ \E t \in Threads : ThreadCheck(t)
    \/ \E t \in Threads : ThreadEnter(t)
    \/ \E t \in Threads : ThreadStore(t)
    \/ \E t \in Threads : ThreadReturn(t)

SpecConcurrent == Init /\ [][NextConcurrent]_vars

\* every caller of the module
Next ==
    \/ \E cls \in AllMappers : AccessSUPPORTED_PREFIXES(cls)
    \/ \E cls \in AllMappers : AccessALL_ATTRIBUTES(cls)
    \/ \E cls \in AllMappers : AccessENTRY_RESOURCE_ATTRIBUTES(cls)
    \/ \E cls \in AllMappers : AccessENDPOINT(cls)
    \/ \E cls \in AllMappers : CallAllAliases(cls)
    \/ \E cls \in AllMappers : CallAllLengthAliases(cls)
    \/ \E cls \in AllMappers, field \in LengthFields : CallLengthAliasFor(cls, field)
    \/ \E cls \in AllMappers, field \in Fields : CallGetBackendField(cls, field)
    \/ \E cls \in AllMappers, field \in Fields : CallGetOptimadeField(cls, field)
    \/ \E cls \in AllMappers, field \in Fields : CallAliasFor(cls, field)
    \/ \E cls \in AllMappers, field \in Fields : CallAliasOf(cls, field)
    \/ \E cls \in AllMappers : CallGetRequiredFields(cls)
    \/ \E cls \in AllMappers, doc \in Docs \cup ExampleDocs : CallMapBack(cls, doc)
    \/ \E values \in SettingsValues, files \in FileSystems :
           CallLoadSettings(values, files)
    \/ \E t \in Threads, cls \in AllMappers, prop \in Props :
           ThreadCall(t, cls, prop)
    \/ \E t \in Threads : ThreadCheck(t)
    \/ \E t \in Threads : ThreadEnter(t)
    \/ \E t \in Threads : ThreadStore(t)
    \/ \E t \in Threads : ThreadReturn(t)
    \/ TakeResult

Spec == Init /\ [][Next]_vars

(***************************************************************************)
(* What a mapper declares, as the claims speak of it.                      *)
(***************************************************************************)
\* the entry-type identifier of cls: what ENDPOINT yields in a fresh process
OwnEndpoint(cls) == ENDPOINT(EmptyDicts, cls).v

\* the concatenation of the four alias sources of mapper cls
DeclaredAliases(cls) == ConcatAliases(config, OwnEndpoint(cls), cls)

\* the table cls.all_aliases() returns in the current state
EffectiveAliases(cls) == all_aliases(config, clsdict, cls).v

\* the provider fields of mapper cls: configured for its endpoint or declared
ProviderFieldsOf(cls) ==
    LET conf == GetOr(config.provider_fields, OwnEndpoint(cls), <<>>)
        own == PROVIDER_FIELDS(cls)
    IN {conf[i] : i \in DOMAIN conf} \cup {own[i] : i \in DOMAIN own}

Returns(op) == ret.op = op /\ ~ret.raised

(***************************************************************************)
(* C1.  Forward-lookup precedence: when two pairs of the concatenation     *)
(* (config provider fields, PROVIDER_FIELDS, config aliases, ALIASES) of a *)
(* mapper have the same canonical name, get_backend_field of that name     *)
(* returns the backend name of the earlier pair.                           *)
(***************************************************************************)
C1_EarlierPairWins ==
    Returns("get_backend_field") =>
        LET t == DeclaredAliases(ret.cls)
        IN \A i \in DOMAIN t :
              /\ t[i][1] = ret.arg
              /\ \A k \in DOMAIN t : t[k][1] = ret.arg => i <= k
              /\ \E j \in DOMAIN t : i < j /\ t[j][1] = ret.arg
              => ret.v = t[i][2]

C2_OnlyPairOf(cls, f) ==
    LET t == DeclaredAliases(cls)
    IN Cardinality({i \in DOMAIN t :
                       \/ t[i][1] = Prefixed(config.prefix, f)
                       \/ t[i][2] = f}) = 1

(***************************************************************************)
(* C2.  Provider-field aliasing: for a provider field f of mapper M        *)
(* (configured for M's endpoint or in M.PROVIDER_FIELDS) whose names f and *)
(* _p_f occur in no other pair, get_backend_field("_p_f") = f and          *)
(* get_optimade_field(f) = "_p_f".                                         *)
(***************************************************************************)
C2_ProviderFieldAliasing ==
    /\ Returns("get_backend_field") =>
          \A f \in ProviderFieldsOf(ret.cls) :
             C2_OnlyPairOf(ret.cls, f) /\ ret.arg = Prefixed(config.prefix, f)
             => ret.v = f
    /\ Returns("get_optimade_field") =>
          \A f \in ProviderFieldsOf(ret.cls) :
             C2_OnlyPairOf(ret.cls, f) /\ ret.arg = f
             => ret.v = Prefixed(config.prefix, f)

(***************************************************************************)
(* C3.  map_back raises for every document that has a top-level            *)
(* "attributes" key, whatever its other keys and whatever aliases the      *)
(* mapper declares (also when "attributes" is the backend name of a pair). *)
(***************************************************************************)
C3_AttributesKeyRaises ==
    ret.op = "map_back" /\ ATTRIBUTES \in DOMAIN ret.arg => ret.raised

\* map_back raised on a document with "attributes" and another key, on the
\* mapper that declares "attributes" as the backend name of an alias
C3_Witness ==
    /\ ret.op = "map_back"
    /\ ret.raised
    /\ ATTRIBUTES \in DOMAIN ret.arg
    /\ Cardinality(DOMAIN ret.arg) > 1
    /\ \E i \in DOMAIN DeclaredAliases(ret.cls) :
          DeclaredAliases(ret.cls)[i][2] = ATTRIBUTES

(***************************************************************************)
(* C4.  map_back raises only in that case: for every document without a    *)
(* top-level "attributes" key it returns an envelope, also when the mapper *)
(* declares a pair whose canonical name is "attributes".                   *)
(***************************************************************************)
C4_NoAttributesKeyReturns ==
    ret.op = "map_back" /\ ATTRIBUTES \notin DOMAIN ret.arg => ~ret.raised

\* map_back returned on a document that holds the backend key of a declared
\* pair whose canonical name is "attributes"
C4_Witness ==
    /\ Returns("map_back")
    /\ ATTRIBUTES \notin DOMAIN ret.arg
    /\ \E i \in DOMAIN DeclaredAliases(ret.cls) :
          /\ DeclaredAliases(ret.cls)[i][1] = ATTRIBUTES
          /\ DeclaredAliases(ret.cls)[i][2] \in DOMAIN ret.arg

(***************************************************************************)
(* C5 as claimed.  Key set of the envelope: for every document without an *)
(* "attributes" key, the top-level keys of the envelope are id, type,      *)
(* attributes and those of relationships, links that are keys of the       *)
(* renamed input.                                                          *)
(***************************************************************************)
C5_KeysWithId ==
    Returns("map_back") /\ ATTRIBUTES \notin DOMAIN ret.arg =>
        DOMAIN ret.v =
            {ID, TYPE, ATTRIBUTES}
            \cup ({RELATIONSHIPS, LINKS}
                  \cap DOMAIN RenamedDoc(EffectiveAliases(ret.cls), ret.arg))

(***************************************************************************)
(* C5 as amended.  For every document map_back returns an envelope for,   *)
(* the top-level keys of the envelope are type, attributes and those of    *)
(* id, relationships, links that are keys of the renamed input, whatever   *)
(* value they hold, null included.                                         *)
(***************************************************************************)
C5_KeysOfEnvelope ==
    Returns("map_back") =>
        DOMAIN ret.v =
            {TYPE, ATTRIBUTES}
            \cup ({ID, RELATIONSHIPS, LINKS}
                  \cap DOMAIN RenamedDoc(EffectiveAliases(ret.cls), ret.arg))

\* map_back returned on a document without id whose other top-level field
\* holds null
C5_Witness ==
    /\ Returns("map_back")
    /\ ID \notin DOMAIN ret.arg
    /\ \E k \in {RELATIONSHIPS, LINKS} \cap DOMAIN ret.arg :
          ret.arg[k] = NullValue

(***************************************************************************)
(* C6.  Content of the envelope: every input key that is no backend name   *)
(* of a pair and no top-level field appears in attributes with its value,  *)
(* and for every pair (c, b) of the mapper with b in the input, the value  *)
(* of b appears under c (at top level when c is a top-level field, in      *)
(* attributes otherwise).                                                  *)
(***************************************************************************)
C6_ContentOfEnvelope ==
    Returns("map_back") =>
        LET doc == ret.arg
            out == ret.v
            t == DeclaredAliases(ret.cls)
            reals == {t[i][2] : i \in DOMAIN t}
            under(c) == IF c \in TOP_LEVEL_NON_ATTRIBUTES_FIELDS
                        THEN out ELSE out[ATTRIBUTES]
        IN /\ \A k \in DOMAIN doc :
                 k \notin reals /\ k \notin TOP_LEVEL_NON_ATTRIBUTES_FIELDS
                 => k \in DOMAIN out[ATTRIBUTES] /\ out[ATTRIBUTES][k] = doc[k]
           /\ \A i \in DOMAIN t :
                 t[i][2] \in DOMAIN doc
                 => /\ t[i][1] \in DOMAIN under(t[i][1])
                    /\ under(t[i][1])[t[i][1]] = doc[t[i][2]]

(***************************************************************************)
(* C7.  Wire shape: the top-level keys of every envelope are among id,     *)
(* type, relationships, links, attributes; type and attributes are always  *)
(* there; none of id, type, relationships, links is a key of attributes.   *)
(***************************************************************************)
C7_WireShape ==
    Returns("map_back") =>
        /\ DOMAIN ret.v \subseteq TOP_LEVEL_NON_ATTRIBUTES_FIELDS \cup {ATTRIBUTES}
        /\ TYPE \in DOMAIN ret.v
        /\ ATTRIBUTES \in DOMAIN ret.v
        /\ DOMAIN ret.v[ATTRIBUTES] \cap TOP_LEVEL_NON_ATTRIBUTES_FIELDS = {}

\* map_back returned on a document with a top-level field and another field
C7_Witness ==
    /\ Returns("map_back")
    /\ ID \in DOMAIN ret.arg
    /\ DOMAIN ret.arg \ TOP_LEVEL_NON_ATTRIBUTES_FIELDS # {}
    /\ DOMAIN ret.v[ATTRIBUTES] # {}

(***************************************************************************)
(* C8.  The "type" of every envelope mapper M returns is M's own           *)
(* entry-type identifier, the type const of M.ENTRY_RESOURCE_CLASS.        *)
(***************************************************************************)
C8_TypeIsOwnEndpoint ==
    Returns("map_back") => ret.v[TYPE] = OwnEndpoint(ret.cls)

C9_FreshValue(op, cls) ==
    CASE op = "SUPPORTED_PREFIXES" -> SUPPORTED_PREFIXES(config, EmptyDicts, cls).v
      [] op = "ALL_ATTRIBUTES" -> ALL_ATTRIBUTES(config, EmptyDicts, cls).v
      [] op = "ENTRY_RESOURCE_ATTRIBUTES" -> ENTRY_RESOURCE_ATTRIBUTES(EmptyDicts, cls).v
      [] op = "ENDPOINT" -> ENDPOINT(EmptyDicts, cls).v
      [] op = "all_aliases" -> all_aliases(config, EmptyDicts, cls).v

(***************************************************************************)
(* C9.  Every access of a cached table of mapper M returns the value       *)
(* computed from M's own declarations and the configuration, the one a     *)
(* first access in a fresh process returns, whatever was accessed before.  *)
(***************************************************************************)
C9_OrderIndependent ==
    ret.op \in {"SUPPORTED_PREFIXES", "ALL_ATTRIBUTES",
                "ENTRY_RESOURCE_ATTRIBUTES", "ENDPOINT", "all_aliases"}
    => ret.v = C9_FreshValue(ret.op, ret.cls)

C10_Dotted(s) == \E i \in DOMAIN s : s[i] = DOT

C10_FirstDot(s) == CHOOSE i \in DOMAIN s : s[i] = DOT /\ \A j \in 1..(i - 1) : s[j] # DOT

C10_HasAlias(cls, h) ==
    \E i \in DOMAIN DeclaredAliases(cls) : DeclaredAliases(cls)[i][1] = h

(***************************************************************************)
(* C10.  Forward dotted paths: for an input "h.rest", get_backend_field    *)
(* returns get_backend_field("h") followed by ".rest" when h is the        *)
(* canonical name of a pair of the mapper, and the input when it is not.   *)
(***************************************************************************)
C10_DottedPathPreserved ==
    Returns("get_backend_field") /\ C10_Dotted(ret.arg) =>
        LET n == C10_FirstDot(ret.arg)
            h == SubSeq(ret.arg, 1, n - 1)
            dotrest == SubSeq(ret.arg, n, Len(ret.arg))
        IN IF C10_HasAlias(ret.cls, h)
           THEN ret.v = get_backend_field(config, clsdict, ret.cls, h).v \o dotrest
           ELSE ret.v = ret.arg

\* get_backend_field returned for "h.r1.r2" with h the canonical name of a
\* pair the mapper declares
C10_Witness ==
    /\ Returns("get_backend_field")
    /\ C10_Dotted(ret.arg)
    /\ C10_HasAlias(ret.cls, SubSeq(ret.arg, 1, C10_FirstDot(ret.arg) - 1))
    /\ Len(Split(ret.arg)) = 3

\* the pairs of the concatenation of mapper cls whose backend name is b
C11_PairsWithBackend(cls, b) ==
    {i \in DOMAIN DeclaredAliases(cls) : DeclaredAliases(cls)[i][2] = b}

\* the index of the last pair in a non-empty set of indices
C11_Last(I) == CHOOSE i \in I : \A j \in I : j <= i

(***************************************************************************)
(* C11.  Reverse dotted paths: for an input "h.rest" whose first segment h *)
(* is the backend name of a pair of the mapper, get_optimade_field returns *)
(* the canonical name of that pair followed by ".rest"; with the pair      *)
(* (species, kinds), "kinds.mass" gives "species.mass".                    *)
(***************************************************************************)
C11_ReverseDottedPath ==
    Returns("get_optimade_field") /\ C10_Dotted(ret.arg) =>
        LET n == C10_FirstDot(ret.arg)
            h == SubSeq(ret.arg, 1, n - 1)
            dotrest == SubSeq(ret.arg, n, Len(ret.arg))
            I == C11_PairsWithBackend(ret.cls, h)
        IN I # {} => ret.v = DeclaredAliases(ret.cls)[C11_Last(I)][1] \o dotrest

\* c is the canonical name of no pair of the concatenation of mapper cls
C12_NoAliasPair(cls, c) ==
    /\ \A i \in DOMAIN DeclaredAliases(cls) : DeclaredAliases(cls)[i][1] # c
    /\ \A i \in DOMAIN EffectiveAliases(cls) : EffectiveAliases(cls)[i][1] # c

(***************************************************************************)
(* C12.  Pass-through: neither lookup raises on any string, and a name     *)
(* that is the canonical name of no alias pair of the mapper comes back    *)
(* unchanged from get_backend_field and from get_optimade_field.           *)
(***************************************************************************)
C12_PassThrough ==
    ret.op \in {"get_backend_field", "get_optimade_field"} =>
        /\ ~ret.raised
        /\ C12_NoAliasPair(ret.cls, ret.arg) => ret.v = ret.arg

\* a reverse lookup of a name that is a backend name of a declared pair and
\* the canonical name of none, and a forward lookup of a dotted free name
C12_Witness ==
    /\ Returns("get_optimade_field")
    /\ C12_NoAliasPair(ret.cls, ret.arg)
    /\ C11_PairsWithBackend(ret.cls, ret.arg) # {}
    /\ ret.v = ret.arg

(***************************************************************************)
(* C13.  Every unshadowed alias resolves: for every pair (c, b) of the     *)
(* concatenation of a mapper, from any of its four sources, with no        *)
(* other pair of canonical name c, get_backend_field(c) returns b.         *)
(***************************************************************************)
C13_UnshadowedAliasResolves ==
    Returns("get_backend_field") =>
        \A i \in DOMAIN DeclaredAliases(ret.cls) :
            /\ DeclaredAliases(ret.cls)[i][1] = ret.arg
            /\ \A j \in DOMAIN DeclaredAliases(ret.cls) :
                   j # i => DeclaredAliases(ret.cls)[j][1] # ret.arg
            => ret.v = DeclaredAliases(ret.cls)[i][2]

(***************************************************************************)
(* C14.  Reverse-lookup tie-break: when several pairs of the concatenation *)
(* of a mapper have the backend name b, get_optimade_field(b) returns the  *)
(* canonical name of the last of them.                                     *)
(***************************************************************************)
C14_LastPairWins ==
    Returns("get_optimade_field") =>
        LET I == C11_PairsWithBackend(ret.cls, ret.arg)
        IN Cardinality(I) >= 2 =>
               ret.v = DeclaredAliases(ret.cls)[C11_Last(I)][1]

(***************************************************************************)
(* C15.  ALL_ATTRIBUTES of a mapper is the union of the queryable fields   *)
(* of its schema and the prefixed names "_<prefix>_<f>" of the provider    *)
(* fields f configured for its endpoint or declared in PROVIDER_FIELDS.    *)
(***************************************************************************)
C15_AllAttributesPrefixed ==
    Returns("ALL_ATTRIBUTES") =>
        ret.v = Schema(ret.cls).queryable
                \cup {Prefixed(config.prefix, f) : f \in ProviderFieldsOf(ret.cls)}

\* the document of the example: {"_id": "x1", "custom_elements_field":
\* ["Na", "Cl"], "formula_anon": "AB", "id": "x1"}, the list as one value
C16_Doc ==
    [k \in ExampleKeys |->
        IF k = Str("custom_elements_field") THEN "NaCl"
        ELSE IF k = Str("formula_anon") THEN "AB"
        ELSE "x1"]

(***************************************************************************)
(* C16.  End-to-end example: on the structures mapper whose only alias is  *)
(* (elements, custom_elements_field), map_back of the example document     *)
(* returns exactly {"id": "x1", "type": "structures", "attributes":        *)
(* {"elements": ["Na", "Cl"], "formula_anon": "AB"}}; "_id" is nowhere.    *)
(***************************************************************************)
C16_EndToEnd ==
    /\ ret.op = "map_back"
    /\ ret.cls = ExampleMapper
    /\ ret.arg = C16_Doc
    /\ DeclaredAliases(ExampleMapper)
           = << <<Str("elements"), Str("custom_elements_field")>> >>
    => /\ ~ret.raised
       /\ DOMAIN ret.v = {ID, TYPE, ATTRIBUTES}
       /\ ret.v[ID] = "x1"
       /\ ret.v[TYPE] = "structures"
       /\ DOMAIN ret.v[ATTRIBUTES] = {Str("elements"), Str("formula_anon")}
       /\ ret.v[ATTRIBUTES][Str("elements")] = "NaCl"
       /\ ret.v[ATTRIBUTES][Str("formula_anon")] = "AB"

\* the value an access of property prop of mapper cls computes in a
\* process that has cached nothing
C17_Value(cls, prop) ==
    CASE prop = "SUPPORTED_PREFIXES" -> SUPPORTED_PREFIXES(config, EmptyDicts, cls).v
      [] prop = "ALL_ATTRIBUTES" -> ALL_ATTRIBUTES(config, EmptyDicts, cls).v
      [] prop = "ENTRY_RESOURCE_ATTRIBUTES" ->
            ENTRY_RESOURCE_ATTRIBUTES(EmptyDicts, cls).v
      [] prop = "ENDPOINT" -> ENDPOINT(EmptyDicts, cls).v
      [] prop = "all_aliases" -> all_aliases(config, EmptyDicts, cls).v

(***************************************************************************)
(* C17.  Concurrent first access: when several callers access the same     *)
(* cached property of a mapper at once, their reads and assignments        *)
(* interleaved in any order, every caller that has returned has the value  *)
(* a single access computes, the cache holds that value from then on, and  *)
(* the cache never holds anything else.                                    *)
(***************************************************************************)
C17_ConcurrentFirstAccess ==
    \A t \in Threads :
        threads[t].prop # "" =>
            LET cls == threads[t].cls
                prop == threads[t].prop
                cached == GetAttr(clsdict, CacheCls(cls, prop), Attr(prop))
            IN /\ cached \in {None, Some(C17_Value(cls, prop))}
               /\ threads[t].result # None =>
                     /\ threads[t].result = Some(C17_Value(cls, prop))
                     /\ cached = Some(C17_Value(cls, prop))

\* every caller has returned from ALL_ATTRIBUTES of the structures mapper
\* and every one of them found the attribute None and assigned it
C17_Witness ==
    \A t \in Threads :
        /\ threads[t].cls = "StructureMapper"
        /\ threads[t].prop = "ALL_ATTRIBUTES"
        /\ threads[t].result # None
        /\ threads[t].stored

(***************************************************************************)
(* C18.  load_settings without a config file: when config_file is not      *)
(* given and no file is at the default location it does not raise, warns   *)
(* and returns the values passed; it raises RuntimeError only when a       *)
(* requested non-default file is missing or the file is not valid JSON;    *)
(* the values passed override the values read from the file.               *)
(***************************************************************************)
C18_DefaultFileOptional ==
    ret.op = "load_settings" =>
        LET values == ret.arg.values
            files == ret.arg.files
            requested == GetOr(values, "config_file", DEFAULT_CONFIG_FILE_PATH).s
        IN /\ "config_file" \notin DOMAIN values
              /\ files[DEFAULT_CONFIG_FILE_PATH.s].kind = "missing"
              => ~ret.raised /\ ret.v.warned /\ ret.v.values = values
           /\ ret.raised =>
                 \/ requested # DEFAULT_CONFIG_FILE_PATH.s
                    /\ files[requested].kind = "missing"
                 \/ files[requested].kind = "invalid"
           /\ ~ret.raised =>
                 \A k \in DOMAIN values :
                     k \in DOMAIN ret.v.values /\ ret.v.values[k] = values[k]

====
